---- MODULE Spec2Model ----
(***************************************************************************)
(* On-save syntax checking of SyntaxCheckPlugin.py                         *)
(* (class rustPluginSyntaxCheckEvent): the resolution of the Cargo targets *)
(* of a saved file, the fetch loop over those targets, the walk over each  *)
(* diagnostic tree that rustc prints, and the phantoms (popups) and        *)
(* highlight regions the walk leaves in the views of the window.           *)
(*                                                                         *)
(* Paths are sequences of path components (<<>> is the filesystem root),   *)
(* strings that the code inspects with startswith are sequences of words.  *)
(***************************************************************************)
EXTENDS Integers, Sequences, FiniteSets, TLC

VARIABLES
    rq,               \* resolver on its own: the inputs of determine_targets
    rres,             \* resolver on its own: what determine_targets did with rq
    settings,         \* the view's settings
    pc,               \* where on_post_save_async stands: "idle", "fetch", "infos"
    view_of_interest, \* the view whose save started the run (its file)
    target_list,      \* the list determine_targets returned to get_rustc_messages
    ti,               \* the index in target_list of the target fetched last
    cargo_calls,      \* the "cargo rustc" commands run_cargo ran, in order
    this_view_found,  \* self.this_view_found
    regions_by_view,  \* the run's regions_by_view
    parent_info,      \* the parent_info dictionary of the info being walked
    stack,            \* the records whose children are still being walked
    budget,           \* how many more records rustc may still print
    phantoms,         \* the phantoms the views of the window show
    drawn,            \* the highlight regions the views of the window show
    log,              \* the lines report_silent_message printed
    error,            \* the exception that ended the last handler, "" if none
    step,             \* the record walked last and the context it was walked in
    run_id,           \* the number of check runs started
    runs              \* overlapping check runs: the locals of each call

resolver_vars == <<rq, rres>>
run_vars ==
    <<settings, pc, view_of_interest, target_list, ti, cargo_calls, this_view_found,
      regions_by_view, parent_info, stack, budget, phantoms, drawn, log, error,
      step, run_id>>
overlap_vars == <<runs>>
vars == <<resolver_vars, run_vars, overlap_vars>>

(***************************************************************************)
(* Bounds of the model.                                                    *)
(***************************************************************************)
MaxPackages == 2
MaxTargets == 3

(***************************************************************************)
(* os.path                                                                 *)
(***************************************************************************)
\* os.path.dirname: the root is its own parent.
dirname(p) == IF p = <<>> THEN <<>> ELSE SubSeq(p, 1, Len(p) - 1)

\* os.path.normpath on the components of an absolute path: "." is dropped and
\* ".." drops the component before it (and is itself dropped at the root).
RECURSIVE normpath_r(_, _)
normpath_r(done, rest) ==
    IF rest = <<>> THEN done
    ELSE IF Head(rest) = "." THEN normpath_r(done, Tail(rest))
    ELSE IF Head(rest) = ".." THEN normpath_r(dirname(done), Tail(rest))
    ELSE normpath_r(Append(done, Head(rest)), Tail(rest))

normpath(p) == normpath_r(<<>>, p)

\* Lines 160-162: a relative src_path is joined to the directory of the
\* package's manifest, then normalised.
fix_src_path(package, target) ==
    normpath(IF target.src_path.isabs THEN target.src_path.parts
             ELSE dirname(package.manifest_path) \o target.src_path.parts)

(***************************************************************************)
(* Target resolution.  A conversion or a resolution yields a record        *)
(* [raised, result]: raised is the ValueError of an unknown kind.          *)
(***************************************************************************)
LibKinds == {"lib", "rlib", "dylib", "staticlib", "proc-macro"}
NamedKinds == {"bin", "test", "example", "bench"}
CustomKinds == {"custom-build"}

\* _target_to_args: only the first kind is looked at.  args is <<>> for None,
\* else the pair <<src_path, command-line words>>.
target_to_args(target, src) ==
    LET kind == target.kind[1] IN
    IF kind \in LibKinds THEN [raised |-> FALSE, args |-> <<src, <<"--lib">>>>]
    ELSE IF kind \in NamedKinds
        THEN [raised |-> FALSE, args |-> <<src, <<"--" \o kind, target.name>>>>]
    ELSE IF kind \in CustomKinds THEN [raised |-> FALSE, args |-> <<>>]
    ELSE [raised |-> TRUE, args |-> <<>>]

\* No result (Python's None or an empty list) and a raised ValueError.
NoResult == [raised |-> FALSE, result |-> <<>>]
Raised == [raised |-> TRUE, result |-> <<>>]

\* A target's source path as the resolver hands it on: absolute.
AbsPath(parts) == [isabs |-> TRUE, parts |-> parts]
RelPath(parts) == [isabs |-> FALSE, parts |-> parts]

\* startswith on a path given by its components.
path_startswith(p, prefix) ==
    Len(p) >= Len(prefix) /\ SubSeq(p, 1, Len(prefix)) = prefix

\* _targets_manual_config, lines 178-194.  projects is the list of the
\* settings' projects, each [root, targets, default]: targets the list of
\* (tfile, tcmd) entries, default the "_default" command ("" when absent).
RECURSIVE manual_project_targets(_, _, _)
manual_project_targets(entries, src_root, file_name) ==
    IF entries = <<>> THEN <<>>
    ELSE IF file_name = src_root \o Head(entries)[1]
        THEN <<<<RelPath(Head(entries)[1]), Head(entries)[2]>>>>
    ELSE manual_project_targets(Tail(entries), src_root, file_name)

RECURSIVE targets_manual_config(_, _)
targets_manual_config(projects, file_name) ==
    IF projects = <<>> THEN <<>>
    ELSE
        LET project == Head(projects)
            src_root == project.root \o <<"src">>
            exact == manual_project_targets(project.targets, src_root, file_name)
        IN  IF ~path_startswith(file_name, src_root)
                THEN targets_manual_config(Tail(projects), file_name)
            ELSE IF exact # <<>> THEN exact
            ELSE IF project.default # <<>>
                THEN <<<<RelPath(<<>>), project.default>>>>
            ELSE targets_manual_config(Tail(projects), file_name)

\* _targets_exact_match, lines 225-232.  srcs[i] is the fixed src_path of
\* targets[i].  A matching target that converts to None is passed over.
RECURSIVE targets_exact_match_from(_, _, _, _)
targets_exact_match_from(i, targets, srcs, file_name) ==
    IF i > Len(targets) THEN NoResult
    ELSE IF srcs[i] = file_name
        THEN LET conv == target_to_args(targets[i], AbsPath(srcs[i])) IN
             IF conv.raised THEN Raised
             ELSE IF conv.args # <<>>
                 THEN [raised |-> FALSE, result |-> <<conv.args>>]
             ELSE targets_exact_match_from(i + 1, targets, srcs, file_name)
    ELSE targets_exact_match_from(i + 1, targets, srcs, file_name)

targets_exact_match(targets, srcs, file_name) ==
    targets_exact_match_from(1, targets, srcs, file_name)

\* The inner for loop of lines 248-257 at one directory level: acc is
\* [raised, result, found, found_lib, found_bin].
RECURSIVE longest_level(_, _, _, _, _)
longest_level(i, targets, srcs, path_match, acc) ==
    IF i > Len(targets) \/ acc.raised THEN acc
    ELSE IF dirname(srcs[i]) = path_match
        THEN LET conv == target_to_args(targets[i], AbsPath(srcs[i])) IN
             IF conv.raised THEN [acc EXCEPT !.raised = TRUE]
             ELSE IF conv.args # <<>>
                 THEN longest_level(i + 1, targets, srcs, path_match,
                        [acc EXCEPT !.result = Append(@, conv.args),
                                    !.found = TRUE,
                                    !.found_bin = @ \/ conv.args[2][1] = "--bin",
                                    !.found_lib = @ \/ conv.args[2][1] = "--lib"])
             ELSE longest_level(i + 1, targets, srcs, path_match, acc)
    ELSE longest_level(i + 1, targets, srcs, path_match, acc)

\* The while loop of lines 247-262: up from path_match until a level has
\* targets or the root is passed.
RECURSIVE longest_walk(_, _, _, _)
longest_walk(targets, srcs, path_match, acc) ==
    LET level == longest_level(1, targets, srcs, path_match, acc) IN
    IF level.raised \/ level.found \/ dirname(path_match) = path_match THEN level
    ELSE longest_walk(targets, srcs, dirname(path_match), level)

\* filter_bin without its filter: the --bin entries stay.
filter_bin_keep(walk) ==
    walk.result

\* Lines 264-265: with a --bin and a --lib at the level, drop the --bin.
filter_bin(walk) ==
    IF walk.found_bin /\ walk.found_lib
        THEN SelectSeq(walk.result, LAMBDA x : x[2][1] # "--bin")
    ELSE walk.result

\* _targets_longest_matches, lines 234-266.
targets_longest_matches(targets, srcs, file_name) ==
    LET walk == longest_walk(targets, srcs, dirname(file_name),
                    [raised |-> FALSE, result |-> <<>>, found |-> FALSE,
                     found_lib |-> FALSE, found_bin |-> FALSE])
    IN  IF walk.raised THEN Raised
        ELSE [raised |-> FALSE, result |-> filter_bin(walk)]

\* The package loop of determine_targets, lines 151-171.  Beside the result
\* it reports how it was found (via) and in which package (pkg).
RECURSIVE determine_in_packages(_, _, _)
determine_in_packages(k, packages, file_name) ==
    IF k > Len(packages)
        THEN [raised |-> FALSE, result |-> <<>>, via |-> "none", pkg |-> 0]
    ELSE
        LET targets == packages[k].targets
            srcs == [i \in 1..Len(targets) |-> fix_src_path(packages[k], targets[i])]
            exact == targets_exact_match(targets, srcs, file_name)
            longest == targets_longest_matches(targets, srcs, file_name)
        IN  IF exact.raised
                THEN [raised |-> TRUE, result |-> <<>>, via |-> "exact", pkg |-> k]
            ELSE IF exact.result # <<>>
                THEN [raised |-> FALSE, result |-> exact.result,
                      via |-> "exact", pkg |-> k]
            ELSE IF longest.raised
                THEN [raised |-> TRUE, result |-> <<>>, via |-> "longest", pkg |-> k]
            ELSE IF longest.result # <<>>
                THEN [raised |-> FALSE, result |-> longest.result,
                      via |-> "longest", pkg |-> k]
            ELSE determine_in_packages(k + 1, packages, file_name)

\* determine_targets, lines 137-176.  metadata is the parsed output of
\* "cargo metadata": no line at all when the command failed, else one
\* record [packages].
determine_targets(projects, metadata, file_name) ==
    LET manual == targets_manual_config(projects, file_name) IN
    IF manual # <<>>
        THEN [raised |-> FALSE, result |-> manual, via |-> "manual", pkg |-> 0]
    ELSE IF metadata = <<>>
        THEN [raised |-> FALSE, result |-> <<>>, via |-> "nometadata", pkg |-> 0]
    ELSE determine_in_packages(1, metadata[1].packages, file_name)

(***************************************************************************)
(* The resolver on its own: every bounded request, resolved once.          *)
(***************************************************************************)
\* Sequences over S of length at most n.
SeqUpTo(S, n) == UNION {[1..k -> S] : k \in 0..n}

\* The manifest of the k-th package: the workspace root /p, then members
\* below it.
ManifestDirs == <<<<"p">>, <<"p", "src">>, <<"p", "src", "bin">>>>
ManifestPath(k) == ManifestDirs[((k - 1) % Len(ManifestDirs)) + 1] \o <<"Cargo.toml">>
TargetSrcPaths ==
    {AbsPath(<<"p", "src", "lib.rs">>), AbsPath(<<"p", "src", "bin", "x.rs">>),
     RelPath(<<"src", "..", "main.rs">>)}
TargetKinds == {"lib", "bin", "bench", "custom-build", "cdylib"}
SavedFiles == {<<"p", "src", "lib.rs">>, <<"p", "src", "bin", "x.rs">>}

Targets ==
    {[kind |-> <<k>>, name |-> "t", src_path |-> s] :
        k \in TargetKinds, s \in TargetSrcPaths}

\* The packages that cut the target list ts after the positions in cuts.
RECURSIVE SplitPackages(_, _, _, _, _)
SplitPackages(ts, cuts, from, i, k) ==
    IF i > Len(ts) THEN <<>>
    ELSE IF i \in cuts \/ i = Len(ts)
        THEN <<[manifest_path |-> ManifestPath(k), targets |-> SubSeq(ts, from, i)]>>
             \o SplitPackages(ts, cuts, i + 1, i + 1, k + 1)
    ELSE SplitPackages(ts, cuts, from, i + 1, k)

\* What "cargo metadata" printed for the target list ts cut into packages
\* after the positions in cuts.
Metadata(ts, cuts) == <<[packages |-> SplitPackages(ts, cuts, 1, 1, 1)]>>

\* The ways to cut a list of n targets into at most MaxPackages packages.
CutSets(n) == {c \in SUBSET (1..(n - 1)) : Cardinality(c) < MaxPackages}

\* The settings' "projects": none, or one project rooted at /p that names
\* lib.rs, with or without a "_default".
ManualProjects ==
    {<<>>}
    \cup {<<[root |-> <<"p">>, targets |-> ts, default |-> d]>> :
            ts \in {<<>>, << <<<<"lib.rs">>, <<"--lib">>>> >>},
            d \in {<<>>, <<"--bin", "t">>}}

NotResolved == [done |-> FALSE, raised |-> FALSE, result |-> <<>>, via |-> "", pkg |-> 0]

(***************************************************************************)
(* The window: its open files, and the text buffer of a view.              *)
(***************************************************************************)
UtilRs == <<"p", "src", "util.rs">>
LibRs == <<"p", "src", "lib.rs">>
ClosedRs == <<"p", "src", "closed.rs">>
OpenFiles == {UtilRs, LibRs}

\* window.find_open_file: the view (named by its file) or NoView for None.
NoView == <<>>
find_open_file(path) == IF path \in OpenFiles THEN path ELSE NoView

\* os.path.realpath of a file name, relative names against the working
\* directory (the directory of the saved file, line 54).
realpath(cwd, name) ==
    IF name.isabs THEN normpath(name.parts) ELSE normpath(cwd \o name.parts)

\* Every line of a buffer holds LineWidth characters, its newline included.
LineWidth == 20
text_point(row, col) == row * LineWidth + col
rowcol(point) == <<point \div LineWidth, point % LineWidth>>

\* sublime.Region(a, b) with its begin() and end().
Region(a, b) == <<a, b>>
region_begin(r) == IF r[1] <= r[2] THEN r[1] ELSE r[2]
region_end(r) == IF r[1] <= r[2] THEN r[2] ELSE r[1]

\* view.size() of every open buffer: LastLine full lines.
LastLine == 8
view_size == text_point(LastLine, 0)

(***************************************************************************)
(* add_error_phantoms on one record.  The context c of a walk is           *)
(* [found, regions_by_view, phantoms, log, parent_info, raised]: found is  *)
(* self.this_view_found, raised the ValueError of line 469.                *)
(***************************************************************************)
EmptyDict == [empty |-> TRUE, view |-> NoView, region |-> Region(0, 0)]

\* html.escape(message, quote=False) with "\n" and " " replaced (lines
\* 375-376), word by word.
escape_word(w) ==
    CASE w = "&" -> "&amp;"
      [] w = "<" -> "&lt;"
      [] w = ">" -> "&gt;"
      [] w = "\n" -> "<br>"
      [] w = " " -> "&nbsp;"
      [] OTHER -> w
html_escape(message) == [i \in 1..Len(message) |-> escape_word(message[i])]

\* str.startswith on texts given word by word.
startswith(text, prefix) ==
    Len(text) >= Len(prefix) /\ SubSeq(text, 1, Len(prefix)) = prefix

\* add_message, lines 341-388.  voi is view_of_interest.
add_message(c, info, voi, view, region, message, extra) ==
    LET scope == IF info.level = "error" THEN "invalid" ELSE "info"
        start == rowcol(region_begin(region))
        end == rowcol(region_end(region))
        below == IF start[1] # end[1]
                    THEN Region(text_point(end[1], 0), region_end(region))
                 ELSE region
        cls == IF info.level = "error" THEN "rust-error" ELSE "rust-additional"
    IN  [c EXCEPT
            !.found = @ \/ view = voi,
            !.regions_by_view[<<view, scope>>] = Append(@, region),
            !.phantoms = Append(@,
                [view |-> view, region |-> below,
                 content |-> [cls |-> cls, level |-> info.level,
                              msg |-> html_escape(message), extra |-> extra]])]

\* add_primary_message, lines 390-402.
add_primary_message(c, info, voi, view, region, message) ==
    LET extra == IF info.code.present /\ info.code.explanation
                    THEN <<"?", info.code.code>> ELSE <<>>
    IN  add_message([c EXCEPT !.parent_info =
                        [empty |-> FALSE, view |-> view, region |-> region]],
                    info, voi, view, region, message, extra)

\* report_silent_message, lines 404-406.
report_silent_message(c, info, path, message) ==
    [c EXCEPT !.log = Append(@, [path |-> path, level |-> info.level,
                                 message |-> message])]

\* 'macros>' in file_name (lines 433, 438): a component such as
\* "<std macros>".
MacroFileNames == {"<std macros>", "<core macros>"}
contains_macros(file_name) ==
    \E i \in 1..Len(file_name.parts) : file_name.parts[i] \in MacroFileNames

\* A span is held with its chain of expansions: chain[1] is the span,
\* chain[j + 1] is chain[j]'s expansion.span, the last one has none.
\* find_span_r with one hop only, the file of the expansion not looked at.
find_span_r_one_hop(chain, j) ==
    IF j < Len(chain) THEN j + 1 ELSE 0

\* find_span_r, lines 437-445: the index in the chain of the span it
\* returns, which it reaches after that many hops less one; 0 for None.
RECURSIVE find_span_r(_, _)
find_span_r(chain, j) ==
    IF contains_macros(chain[j].file_name)
        THEN IF j < Len(chain) THEN find_span_r(chain, j + 1) ELSE 0
    ELSE j

\* Lines 433-446: only a macro span is handed to find_span_r.
resolve_span(chain) ==
    IF contains_macros(chain[1].file_name) THEN find_span_r(chain, 1) ELSE 1

\* One turn of the loop over info['spans'], lines 432-483.
walk_span(c, info, voi, cwd, chain) ==
    LET is_primary == chain[1].is_primary
        at == resolve_span(chain)
    IN IF at = 0 THEN c
        ELSE
            LET span == chain[at]
                view == find_open_file(realpath(cwd, span.file_name))
                region == Region(
                    text_point(span.line_start - 1, span.column_start - 1),
                    text_point(span.line_end - 1, span.column_end - 1))
                labelled == IF span.label # <<>>
                                THEN add_message(c, info, voi, view, region,
                                                 span.label, <<>>)
                            ELSE c
                primary == IF is_primary
                                THEN add_primary_message(labelled, info, voi, view,
                                                         region, info.message)
                           ELSE labelled
                silent == IF is_primary
                                THEN report_silent_message(c, info, span.file_name,
                                                           info.message)
                          ELSE c
            IN  IF view # NoView
                    THEN IF span.label = <<>> /\ ~is_primary
                            THEN [c EXCEPT !.raised = TRUE]
                         ELSE IF span.suggested_replacement # <<>>
                            THEN add_message(primary, info, voi, view, region,
                                             info.rendered, <<>>)
                         ELSE primary
                ELSE IF span.label # <<>>
                    THEN report_silent_message(silent, info, span.file_name,
                                               span.label)
                ELSE silent

\* The loop over info['spans']: a raised error ends it.
RECURSIVE walk_spans(_, _, _, _, _)
walk_spans(c, info, voi, cwd, i) ==
    IF i > Len(info.spans) \/ c.raised THEN c
    ELSE walk_spans(walk_span(c, info, voi, cwd, info.spans[i]), info, voi, cwd, i + 1)

AbortingDueTo == <<"aborting due to">>
CannotContinue == <<"cannot continue">>

\* walk_spanless with no message suppressed.
walk_spanless_no_noise(c, info, voi, cwd, target_src_path) ==
    LET view == find_open_file(realpath(cwd, target_src_path)) IN
    IF Len(info.spans) # 0 THEN c
    ELSE IF ~c.parent_info.empty
        THEN add_primary_message(c, info, voi, c.parent_info.view,
                                 c.parent_info.region, info.message)
    ELSE IF view # NoView
        THEN add_primary_message(c, info, voi, view,
                                 Region(view_size, view_size), info.message)
    ELSE report_silent_message(c, info, target_src_path, info.message)

\* Lines 408-429: a record with no spans.
walk_spanless(c, info, voi, cwd, target_src_path) ==
    LET view == find_open_file(realpath(cwd, target_src_path)) IN
    IF Len(info.spans) # 0 THEN c
    ELSE IF ~c.parent_info.empty
        THEN add_primary_message(c, info, voi, c.parent_info.view,
                                 c.parent_info.region, info.message)
    ELSE IF startswith(info.message, AbortingDueTo)
            \/ startswith(info.message, CannotContinue)
        THEN c
    ELSE IF view # NoView
        THEN add_primary_message(c, info, voi, view,
                                 Region(view_size, view_size), info.message)
    ELSE report_silent_message(c, info, target_src_path, info.message)

\* Lines 294-299: the record is passed over, its children with it.
hidden(info, view_settings, pinfo) ==
    /\ info.level # "error"
    /\ view_settings.rust_syntax_hide_warnings
    /\ pinfo.empty

\* add_error_phantoms without its recursion, lines 290-483.
add_error_phantoms(c, info, voi, view_settings, cwd, target_src_path) ==
    IF hidden(info, view_settings, c.parent_info) THEN c
    ELSE walk_spans(walk_spanless(c, info, voi, cwd, target_src_path),
                    info, voi, cwd, 1)

(***************************************************************************)
(* What rustc prints.  A record is revealed when the walk reaches it, in   *)
(* the order of the walk (a record, then its children): it tells its own   *)
(* fields and how many children it has.                                    *)
(***************************************************************************)
MaxRunRecords == 3
MaxTreeRecords == 3
MaxChildren == 2
MaxRuns == 2

Pos1 == [line_start |-> 5, column_start |-> 1, line_end |-> 5, column_end |-> 10]
Pos2 == [line_start |-> 2, column_start |-> 3, line_end |-> 3, column_end |-> 4]

Span(file, pos, is_primary, label, suggested_replacement) ==
    [file_name |-> file,
     line_start |-> pos.line_start, column_start |-> pos.column_start,
     line_end |-> pos.line_end, column_end |-> pos.column_end,
     is_primary |-> is_primary, label |-> label,
     suggested_replacement |-> suggested_replacement]

MacroSpan(is_primary) ==
    Span(RelPath(<<"<std macros>">>), Pos1, is_primary, <<>>, <<>>)

Label == <<"expected", " ", "u32">>
Replacement == <<"x", " ", "as", " ", "u32">>
Mismatched == <<"mismatched", " ", "types">>
Aborting == <<"aborting due to", " ", "previous", " ", "error">>
Cannot == <<"cannot continue", " ", "compilation">>

\* The records of the model carry the code of an error with an
\* explanation when they are errors, and no code otherwise.
Record(level, message, spans, nchildren) ==
    [level |-> level, message |-> message,
     code |-> [present |-> level = "error", code |-> "E0308",
               explanation |-> level = "error"],
     spans |-> spans, rendered |-> <<"rendered">>, nchildren |-> nchildren]

Levels == {"error", "warning"}

\* The spans of the check runs: a labelled primary span in each file, a
\* span with no label that is not primary, a macro span with no expansion.
RunSpans ==
    {<<Span(AbsPath(f), Pos1, TRUE, Label, <<>>)>> : f \in {UtilRs, LibRs, ClosedRs}}
    \cup {<<Span(AbsPath(UtilRs), Pos2, FALSE, <<>>, <<>>)>>, <<MacroSpan(TRUE)>>}

RunRecords ==
    {Record(l, Mismatched, <<s>>, n) : l \in Levels, s \in RunSpans, n \in 0..1}
    \cup {Record(l, m, <<>>, 0) : l \in Levels, m \in {Mismatched, Aborting}}

(***************************************************************************)
(* The check run: on_post_save_async, lines 43-87.                         *)
(***************************************************************************)
Scopes == {"invalid", "info"}
NoRegions == [k \in OpenFiles \X Scopes |-> <<>>]
NoStep == [walked |-> FALSE]

\* hide_phantoms, lines 268-272, on the views of the window.
hide_phantoms ==
    /\ phantoms' = <<>>
    /\ drawn' = NoRegions

\* draw_region_highlights, lines 489-495: add_regions replaces what the view
\* shows under the key of the scope.
draw_region_highlights(regions, shown) ==
    [k \in OpenFiles \X Scopes |-> IF regions[k] # <<>> THEN regions[k] ELSE shown[k]]

\* The command of get_rustc_messages for one target, lines 129-134.
rustc_command(view_settings, target) ==
    [target_src |-> target[1], target_args |-> target[2],
     test |-> view_settings.rust_syntax_checking_include_tests
              /\ target[2][1] # "--test"]

\* What the projects of the check runs declare: nothing readable, a library,
\* a binary and a benchmark beside the saved file, a kind Cargo knows and
\* the plugin does not.
RunMetadatas ==
    {<<>>,
     Metadata(<<[kind |-> <<"lib">>, name |-> "t", src_path |-> AbsPath(LibRs)]>>, {}),
     Metadata(<<[kind |-> <<"bin">>, name |-> "t",
                 src_path |-> AbsPath(<<"p", "src", "main.rs">>)],
                [kind |-> <<"bench">>, name |-> "b",
                 src_path |-> AbsPath(LibRs)]>>, {}),
     Metadata(<<[kind |-> <<"cdylib">>, name |-> "t", src_path |-> AbsPath(LibRs)]>>, {})}

\* The save of a Rust view with syntax checking on, up to the request for
\* the first target: lines 52-72 and, in the generator, line 127.
Save(view, metadata) ==
    LET r == determine_targets(settings.projects, metadata, view) IN
    /\ pc = "idle"
    /\ settings.rust_syntax_checking
    /\ run_id < MaxRuns
    /\ run_id' = run_id + 1
    /\ view_of_interest' = view
    /\ this_view_found' = FALSE
    /\ hide_phantoms
    /\ regions_by_view' = NoRegions
    /\ parent_info' = EmptyDict
    /\ stack' = <<>>
    /\ budget' = MaxRunRecords
    /\ log' = <<>>
    /\ cargo_calls' = <<>>
    /\ step' = NoStep
    /\ ti' = 0
    /\ target_list' = r.result
    /\ error' = IF r.raised THEN "ValueError" ELSE ""
    /\ pc' = IF r.raised \/ r.result = <<>> THEN "idle" ELSE "fetch"
    /\ UNCHANGED <<settings, resolver_vars, overlap_vars>>

\* The save of a view with syntax checking off, lines 85-86.
SaveDisabled ==
    /\ pc = "idle"
    /\ ~settings.rust_syntax_checking
    /\ hide_phantoms
    /\ error' = ""
    /\ UNCHANGED <<settings, pc, view_of_interest, target_list, ti, cargo_calls,
                   this_view_found, regions_by_view, parent_info, stack, budget,
                   log, step, run_id, resolver_vars, overlap_vars>>

\* The user switches syntax checking on or off.
ToggleChecking ==
    /\ pc = "idle"
    /\ settings' = [settings EXCEPT !.rust_syntax_checking = ~@]
    /\ UNCHANGED <<pc, view_of_interest, target_list, ti, cargo_calls,
                   this_view_found, regions_by_view, parent_info, stack, budget,
                   phantoms, drawn, log, error, step, run_id, resolver_vars, overlap_vars>>

\* The click on a phantom's "hide" link, lines 335-337, between two runs.
Dismiss ==
    /\ pc = "idle"
    /\ phantoms # <<>>
    /\ hide_phantoms
    /\ UNCHANGED <<settings, pc, view_of_interest, target_list, ti, cargo_calls,
                   this_view_found, regions_by_view, parent_info, stack, budget,
                   log, error, step, run_id, resolver_vars, overlap_vars>>

\* The generator yields the next target: run_cargo runs its command,
\* lines 128-135.
Fetch ==
    /\ pc = "fetch"
    /\ ti < Len(target_list)
    /\ ti' = ti + 1
    /\ cargo_calls' = Append(cargo_calls, rustc_command(settings, target_list[ti + 1]))
    /\ pc' = "infos"
    /\ UNCHANGED <<settings, view_of_interest, target_list, this_view_found,
                   regions_by_view, parent_info, stack, budget, phantoms, drawn,
                   log, error, step, run_id, resolver_vars, overlap_vars>>

\* The children that the records on the stack still wait for.
RECURSIVE Outstanding(_)
Outstanding(frames) ==
    IF frames = <<>> THEN 0 ELSE Head(frames).left + Outstanding(Tail(frames))

\* The stack without the records on top of it that wait for no child.
RECURSIVE Trim(_)
Trim(frames) ==
    IF frames = <<>> THEN <<>>
    ELSE IF frames[Len(frames)].left = 0
        THEN Trim(SubSeq(frames, 1, Len(frames) - 1))
    ELSE frames

\* add_error_phantoms on the next record rustc printed for the target: a
\* top-level record starts from an empty parent_info (line 76), a child is
\* walked with the dictionary its parent was walked with (line 487).  The
\* ValueError of line 469 ends the run at the finally of line 81.
WalkRecord(info) ==
    LET top == stack = <<>>
        pinfo == IF top THEN EmptyDict ELSE parent_info
        target_src_path == target_list[ti][1]
        cwd == dirname(view_of_interest)
        before == [found |-> this_view_found, regions_by_view |-> regions_by_view,
                   phantoms |-> phantoms, log |-> log, parent_info |-> pinfo,
                   raised |-> FALSE]
        after == add_error_phantoms(before, info, view_of_interest, settings, cwd,
                                    target_src_path)
        skipped == hidden(info, settings, pinfo)
        revealed == IF top THEN stack ELSE [stack EXCEPT ![Len(stack)].left = @ - 1]
    IN  /\ pc = "infos"
        /\ budget > 0
        /\ info.nchildren + Outstanding(stack) <= budget - (IF top THEN 1 ELSE 0)
        /\ budget' = budget - 1
        /\ this_view_found' = after.found
        /\ regions_by_view' = after.regions_by_view
        /\ phantoms' = after.phantoms
        /\ log' = after.log
        /\ parent_info' = after.parent_info
        /\ step' = [walked |-> TRUE, info |-> info, ancestors |-> stack,
                    before |-> before, target_src_path |-> target_src_path,
                    resolved |-> [i \in 1..Len(info.spans) |->
                                    resolve_span(info.spans[i])],
                    skipped |-> skipped, raised |-> after.raised]
        /\ stack' = IF after.raised THEN <<>>
                    ELSE IF info.nchildren > 0 /\ ~skipped
                        THEN Append(revealed, [info |-> info, left |-> info.nchildren])
                    ELSE Trim(revealed)
        /\ error' = IF after.raised THEN "ValueError" ELSE ""
        /\ pc' = IF after.raised THEN "idle" ELSE "infos"
        /\ UNCHANGED <<settings, view_of_interest, target_list, ti, cargo_calls,
                       drawn, run_id, resolver_vars, overlap_vars>>

\* The infos of the target are all walked: the loop of line 72 leaves at
\* line 78, or asks for the next target, and after the last one the regions
\* are drawn (line 80).
EndTarget ==
    /\ pc = "infos"
    /\ stack = <<>>
    /\ IF this_view_found \/ ti = Len(target_list)
          THEN /\ drawn' = draw_region_highlights(regions_by_view, drawn)
               /\ pc' = "idle"
          ELSE /\ pc' = "fetch"
               /\ UNCHANGED drawn
    /\ UNCHANGED <<settings, view_of_interest, target_list, ti, cargo_calls,
                   this_view_found, regions_by_view, parent_info, stack, budget,
                   phantoms, log, error, step, run_id, resolver_vars, overlap_vars>>

Settings(hide_warnings) ==
    [rust_syntax_checking |-> TRUE, rust_syntax_hide_warnings |-> hide_warnings,
     rust_syntax_checking_include_tests |-> TRUE, projects |-> <<>>]

\* The calls of on_post_save_async that may overlap, and the local
\* variables of a call that has not started.
RunIds == {1, 2}
NotStarted ==
    [pc |-> "idle", started |-> FALSE, raised |-> FALSE, view_of_interest |-> UtilRs,
     target_list |-> <<>>, ti |-> 0, regions_by_view |-> NoRegions, budget |-> 0]
IdleRuns == [r \in RunIds |-> NotStarted]

\* The plugin is loaded, nothing was saved yet.
InitRun ==
    /\ runs = IdleRuns
    /\ pc = "idle"
    /\ view_of_interest = UtilRs
    /\ target_list = <<>>
    /\ ti = 0
    /\ cargo_calls = <<>>
    /\ this_view_found = FALSE
    /\ regions_by_view = NoRegions
    /\ parent_info = EmptyDict
    /\ stack = <<>>
    /\ budget = 0
    /\ phantoms = <<>>
    /\ drawn = NoRegions
    /\ log = <<>>
    /\ error = ""
    /\ step = NoStep
    /\ run_id = 0

Init ==
    /\ settings = Settings(FALSE)
    /\ InitRun
    /\ rq = [projects |-> <<>>, metadata |-> <<>>, file_name |-> UtilRs]
    /\ rres = NotResolved

Next ==
    \/ \E view \in OpenFiles : \E metadata \in RunMetadatas : Save(view, metadata)
    \/ SaveDisabled
    \/ ToggleChecking
    \/ Dismiss
    \/ Fetch
    \/ \E info \in RunRecords : WalkRecord(info)
    \/ EndTarget

Spec == Init /\ [][Next]_vars

(***************************************************************************)
(* One target's diagnostics on their own: a check run of util.rs that has  *)
(* just fetched its only target walks records drawn from a wider set.      *)
(***************************************************************************)
\* The spans of a file: is_primary, label and suggested_replacement in
\* every combination on a line of the saved file, and some of them over two
\* lines of it and in a file that is not open.
RealSpans ==
    {<<Span(AbsPath(UtilRs), Pos1, p, l, r)>> :
        p \in BOOLEAN, l \in {<<>>, Label}, r \in {<<>>, Replacement}}
    \cup {<<Span(AbsPath(UtilRs), Pos2, TRUE, l, <<>>)>> : l \in {<<>>, Label}}
    \cup {<<Span(AbsPath(ClosedRs), Pos1, p, l, r)>> :
            p \in BOOLEAN, l \in {<<>>, Label}, r \in {<<>>, Replacement}}

\* Macro spans: with no expansion, expanding to a span of a file, and after
\* two hops, the last of them to a span of a file that itself has an
\* expansion.
MacroSpans ==
    {<<MacroSpan(TRUE)>>,
     <<MacroSpan(TRUE), Span(AbsPath(ClosedRs), Pos1, TRUE, Label, <<>>)>>,
     <<MacroSpan(FALSE), Span(AbsPath(UtilRs), Pos2, FALSE, Label, <<>>)>>,
     <<MacroSpan(FALSE), MacroSpan(TRUE)>>,
     <<MacroSpan(TRUE), MacroSpan(FALSE),
       Span(AbsPath(UtilRs), Pos1, FALSE, <<>>, <<>>), MacroSpan(TRUE)>>}

TreeSpans == RealSpans \cup MacroSpans

\* The span lists of a top-level record: one span, or two of which the
\* first is a macro span whose expansions end in a macro span, or a span
\* with no label that is not primary.
TreeSpanLists ==
    {<<s>> : s \in TreeSpans}
    \cup {<<s, t>> :
            s \in {<<MacroSpan(FALSE), MacroSpan(TRUE)>>,
                   <<Span(AbsPath(UtilRs), Pos1, FALSE, <<>>, <<>>)>>},
            t \in {<<Span(AbsPath(UtilRs), Pos2, TRUE, Label, <<>>)>>,
                   <<Span(AbsPath(ClosedRs), Pos1, TRUE, Label, <<>>)>>}}

Messages == {Mismatched, Aborting, Cannot}

TreeRecords ==
    {Record(l, Mismatched, ss, n) :
        l \in Levels, ss \in TreeSpanLists, n \in 0..MaxChildren}
    \cup {Record(l, m, <<>>, n) : l \in Levels, m \in Messages, n \in 0..MaxChildren}

\* The children: with no span, or with one span.
ChildSpanLists ==
    {<<<<Span(AbsPath(UtilRs), Pos2, TRUE, Label, <<>>)>>>>,
     <<<<Span(AbsPath(UtilRs), Pos2, FALSE, Label, <<>>)>>>>,
     <<<<Span(AbsPath(ClosedRs), Pos1, TRUE, Label, <<>>)>>>>,
     <<<<Span(AbsPath(UtilRs), Pos1, FALSE, <<>>, <<>>)>>>>}

ChildRecords ==
    {Record(l, Mismatched, ss, n) :
        l \in Levels, ss \in ChildSpanLists, n \in 0..(MaxChildren - 1)}
    \cup {Record(l, m, <<>>, n) :
            l \in Levels, m \in {Mismatched, Aborting}, n \in 0..(MaxChildren - 1)}

\* The targets of the run: the library of lib.rs, which is open, or the
\* binary of main.rs, which is not.
TreeTargets ==
    {<<AbsPath(LibRs), <<"--lib">>>>,
     <<AbsPath(<<"p", "src", "main.rs">>), <<"--bin", "t">>>>}

InitTree ==
    /\ \E hide_warnings \in BOOLEAN : settings = Settings(hide_warnings)
    /\ pc = "infos"
    /\ view_of_interest = UtilRs
    /\ \E target \in TreeTargets :
        /\ target_list = <<target>>
        /\ cargo_calls = <<rustc_command(Settings(FALSE), target)>>
    /\ ti = 1
    /\ this_view_found = FALSE
    /\ regions_by_view = NoRegions
    /\ parent_info = EmptyDict
    /\ stack = <<>>
    /\ budget = MaxTreeRecords
    /\ phantoms = <<>>
    /\ drawn = NoRegions
    /\ log = <<>>
    /\ error = ""
    /\ step = NoStep
    /\ run_id = 1
    /\ runs = IdleRuns
    /\ rq = [projects |-> <<>>, metadata |-> <<>>, file_name |-> UtilRs]
    /\ rres = NotResolved

\* rustc prints one diagnostic for the target, with its children.
WalkTop == \E info \in TreeRecords : budget = MaxTreeRecords /\ WalkRecord(info)
WalkChild == \E info \in ChildRecords : stack # <<>> /\ WalkRecord(info)

NextTree ==
    \/ WalkTop
    \/ WalkChild
    \/ EndTarget

SpecTree == InitTree /\ [][NextTree]_vars

(***************************************************************************)
(* Overlapping check runs: two calls of on_post_save_async on the one      *)
(* listener object.  Each call has its own locals (view, file_name,        *)
(* regions_by_view, the generator of get_rustc_messages); the attribute    *)
(* self.this_view_found and the window are shared.  Both saved files lie   *)
(* in one directory, so the os.chdir of line 54 changes nothing.           *)
(***************************************************************************)
MaxOverlapRecords == 2

\* What rustc prints in these runs: an error with a labelled primary span
\* in each file, a warning with no span.
OverlapRecords ==
    {Record("error", Mismatched, <<<<Span(AbsPath(f), Pos1, TRUE, Label, <<>>)>>>>, 0) :
        f \in {UtilRs, LibRs, ClosedRs}}
    \cup {Record("warning", Mismatched, <<>>, 0)}

\* The variables of the single check run, which these runs leave alone.
single_run_vars ==
    <<settings, pc, view_of_interest, target_list, ti, cargo_calls, regions_by_view,
      parent_info, stack, budget, error, step, run_id>>

\* Call r starts: lines 52-72 and, in the generator, line 127.
SaveOverlap(r, view, metadata) ==
    LET t == determine_targets(settings.projects, metadata, view) IN
    /\ ~runs[r].started
    /\ this_view_found' = FALSE
    /\ hide_phantoms
    /\ runs' = [runs EXCEPT ![r] =
                    [pc |-> IF t.raised \/ t.result = <<>> THEN "idle" ELSE "fetch",
                     started |-> TRUE, raised |-> t.raised,
                     view_of_interest |-> view, target_list |-> t.result, ti |-> 0,
                     regions_by_view |-> NoRegions, budget |-> MaxOverlapRecords]]
    /\ UNCHANGED <<single_run_vars, log, resolver_vars>>

\* The generator of call r yields its next target, lines 128-135.
FetchOverlap(r) ==
    /\ runs[r].pc = "fetch"
    /\ runs[r].ti < Len(runs[r].target_list)
    /\ runs' = [runs EXCEPT ![r].ti = @ + 1, ![r].pc = "infos"]
    /\ UNCHANGED <<single_run_vars, this_view_found, phantoms, drawn, log,
                   resolver_vars>>

\* Call r walks the next record of its target, line 76: add_message reads
\* view_of_interest from the call and writes the flag of the listener.
WalkOverlap(r, info) ==
    LET run == runs[r]
        before == [found |-> this_view_found, regions_by_view |-> run.regions_by_view,
                   phantoms |-> phantoms, log |-> log, parent_info |-> EmptyDict,
                   raised |-> FALSE]
        after == add_error_phantoms(before, info, run.view_of_interest, settings,
                                    dirname(run.view_of_interest),
                                    run.target_list[run.ti][1])
    IN  /\ run.pc = "infos"
        /\ run.budget > 0
        /\ this_view_found' = after.found
        /\ phantoms' = after.phantoms
        /\ log' = after.log
        /\ runs' = [runs EXCEPT ![r].regions_by_view = after.regions_by_view,
                                ![r].budget = @ - 1,
                                ![r].raised = after.raised,
                                ![r].pc = IF after.raised THEN "idle" ELSE "infos"]
        /\ UNCHANGED <<single_run_vars, drawn, resolver_vars>>

\* Call r has walked the infos of its target: lines 77-80.
EndTargetOverlap(r) ==
    /\ runs[r].pc = "infos"
    /\ IF this_view_found \/ runs[r].ti = Len(runs[r].target_list)
          THEN /\ drawn' = draw_region_highlights(runs[r].regions_by_view, drawn)
               /\ runs' = [runs EXCEPT ![r].pc = "idle"]
          ELSE /\ runs' = [runs EXCEPT ![r].pc = "fetch"]
               /\ UNCHANGED drawn
    /\ UNCHANGED <<single_run_vars, this_view_found, phantoms, log, resolver_vars>>

InitOverlap ==
    /\ settings = Settings(FALSE)
    /\ InitRun
    /\ rq = [projects |-> <<>>, metadata |-> <<>>, file_name |-> UtilRs]
    /\ rres = NotResolved

NextOverlap ==
    \/ \E r \in RunIds : \E view \in OpenFiles : \E metadata \in RunMetadatas :
        SaveOverlap(r, view, metadata)
    \/ \E r \in RunIds : FetchOverlap(r)
    \/ \E r \in RunIds : \E info \in OverlapRecords : WalkOverlap(r, info)
    \/ \E r \in RunIds : EndTargetOverlap(r)

SpecOverlap == InitOverlap /\ [][NextOverlap]_vars

(***************************************************************************)
(* The resolver on its own, every bounded request resolved once.           *)
(***************************************************************************)
\* A request: "cargo metadata" failed (no line), or it lists at most
\* MaxPackages packages that declare at most MaxTargets targets between
\* them; a manual configuration is tried with one declared target.
InitResolver ==
    /\ settings = Settings(FALSE)
    /\ InitRun
    /\ rres = NotResolved
    /\ \E file_name \in SavedFiles :
        \/ rq = [projects |-> <<>>, metadata |-> <<>>, file_name |-> file_name]
        \/ \E ts \in SeqUpTo(Targets, MaxTargets) : \E cuts \in CutSets(Len(ts)) :
            rq = [projects |-> <<>>, metadata |-> Metadata(ts, cuts),
                  file_name |-> file_name]
        \/ \E projects \in ManualProjects \ {<<>>} : \E t \in Targets :
            rq = [projects |-> projects, metadata |-> Metadata(<<t>>, {}),
                  file_name |-> file_name]

Resolve ==
    /\ ~rres.done
    /\ LET r == determine_targets(rq.projects, rq.metadata, rq.file_name) IN
       rres' = [done |-> TRUE, raised |-> r.raised, result |-> r.result,
                via |-> r.via, pkg |-> r.pkg]
    /\ UNCHANGED <<rq, run_vars, overlap_vars>>

NextResolver == Resolve

SpecResolver == InitResolver /\ [][NextResolver]_vars

(***************************************************************************)
(* Properties of the resolver, checked under SpecResolver.                 *)
(***************************************************************************)
RqPackages == IF rq.metadata = <<>> THEN <<>> ELSE rq.metadata[1].packages

\* The declared targets, each named by its package and its place in it.
Declared ==
    UNION {{<<k, i>> : i \in 1..Len(RqPackages[k].targets)} : k \in 1..Len(RqPackages)}
DeclaredKind(d) == RqPackages[d[1]].targets[d[2]].kind[1]
DeclaredSrc(d) == fix_src_path(RqPackages[d[1]], RqPackages[d[1]].targets[d[2]])

\* The kind-mapping table: the kinds that map to an invocation, and the
\* invocation of a target of such a kind.
InvokedKinds == LibKinds \cup NamedKinds
TableKinds == InvokedKinds \cup CustomKinds
Invocation(d) ==
    LET t == RqPackages[d[1]].targets[d[2]] IN
    IF t.kind[1] \in LibKinds THEN <<AbsPath(DeclaredSrc(d)), <<"--lib">>>>
    ELSE <<AbsPath(DeclaredSrc(d)), <<"--" \o t.kind[1], t.name>>>>

NoManualOverride == targets_manual_config(rq.projects, rq.file_name) = <<>>

\* The declared targets of an invoked kind whose entry point is the saved file.
ExactTargets ==
    {d \in Declared : DeclaredSrc(d) = rq.file_name /\ DeclaredKind(d) \in InvokedKinds}

\* C3: with no manual override and every declared kind in the table, when a
\* declared target of any package has the saved file as its entry point,
\* resolve returns exactly the invocation of such a target, and a
\* nearest-directory result is returned only when no declared target of the
\* whole metadata matches exactly.
C3_ExactMatchWins ==
    (/\ rres.done
     /\ NoManualOverride
     /\ \A d \in Declared : DeclaredKind(d) \in TableKinds
     /\ ExactTargets # {})
    => /\ ~rres.raised
       /\ rres.via = "exact"
       /\ Len(rres.result) = 1
       /\ \E d \in ExactTargets : rres.result[1] = Invocation(d)

\* C4: with no manual override, when a declared target has a kind outside
\* the kind-mapping table, resolution raises the configuration error and
\* returns no invocation.
C4_UnknownKindFailsFast ==
    (/\ rres.done
     /\ NoManualOverride
     /\ \E d \in Declared : DeclaredKind(d) \notin TableKinds)
    => rres.raised /\ rres.result = <<>>

\* The ancestors of the saved file, and among them the deepest one in which
\* package k declares an entry point of an invoked kind.
Ancestors ==
    {SubSeq(rq.file_name, 1, n) : n \in 0..(Len(rq.file_name) - 1)}
LevelDirs(k) ==
    {a \in Ancestors :
        \E d \in Declared :
            d[1] = k /\ dirname(DeclaredSrc(d)) = a /\ DeclaredKind(d) \in InvokedKinds}
MatchLevel(k) == CHOOSE a \in LevelDirs(k) : \A b \in LevelDirs(k) : Len(b) <= Len(a)

\* The targets of package k collected at its matching level, in the order
\* of their declaration.
Collected(k) ==
    SelectSeq([i \in 1..Len(RqPackages[k].targets) |-> <<k, i>>],
              LAMBDA d : /\ dirname(DeclaredSrc(d)) = MatchLevel(k)
                         /\ DeclaredKind(d) \in InvokedKinds)
InvocationsOf(ds) == [j \in 1..Len(ds) |-> Invocation(ds[j])]
HasKind(ds, kinds) == \E j \in 1..Len(ds) : DeclaredKind(ds[j]) \in kinds

\* C8: a nearest-directory result for which a library and a binary were
\* both collected at the matching level holds the invocations collected at
\* that level without the binaries, every other one kept; with no library
\* collected it holds them all, the binaries too.
C8_LibraryDropsBinaries ==
    (rres.done /\ ~rres.raised /\ rres.via = "longest")
    => LET all == Collected(rres.pkg) IN
       IF HasKind(all, LibKinds) /\ HasKind(all, {"bin"})
          THEN rres.result =
                  InvocationsOf(SelectSeq(all, LAMBDA d : DeclaredKind(d) # "bin"))
       ELSE rres.result = InvocationsOf(all)

\* C8's case: a library, a binary and a benchmark collected at one level.
C8_Witness ==
    /\ rres.done /\ ~rres.raised /\ rres.via = "longest"
    /\ HasKind(Collected(rres.pkg), LibKinds)
    /\ HasKind(Collected(rres.pkg), {"bin"})
    /\ HasKind(Collected(rres.pkg), {"bench"})

(***************************************************************************)
(* Properties of the check runs, checked under Spec.                       *)
(***************************************************************************)
\* The run anchored an annotation in the file whose save started it.
AnchoredInTrigger ==
    \E scope \in Scopes : regions_by_view[<<view_of_interest, scope>>] # <<>>

\* C1: the targets are fetched one at a time in the order of the resolver;
\* no further target is asked for once an annotation is anchored in the
\* saved file, and a run that anchored none there has fetched every target
\* when it ends.
C1_FetchUntilFound ==
    /\ Len(cargo_calls) = ti
    /\ \A j \in 1..Len(cargo_calls) :
        /\ cargo_calls[j].target_src = target_list[j][1]
        /\ cargo_calls[j].target_args = target_list[j][2]
    /\ pc = "fetch" => ~AnchoredInTrigger
    /\ (pc = "idle" /\ ~AnchoredInTrigger) => ti = Len(target_list)

\* The phantoms a view shows for a scope.
PhantomsOf(view, scope) ==
    SelectSeq(phantoms, LAMBDA ph :
        /\ ph.view = view
        /\ (ph.content.cls = "rust-error") = (scope = "invalid"))

\* C2: while no run is in progress the views show nothing, or the whole
\* annotation set of the latest run: the highlight regions it collected,
\* and one phantom for each of them.
C2_ShownSetIsWhole ==
    pc = "idle" =>
        \/ phantoms = <<>> /\ drawn = NoRegions
        \/ /\ drawn = regions_by_view
           /\ \A k \in OpenFiles \X Scopes :
                Len(PhantomsOf(k[1], k[2])) = Len(drawn[k])

\* C7: nothing that the walk of a record meets ends the run: an error ends
\* a run only while its targets are resolved, before any record is walked.
C7_OnlyResolverAborts ==
    /\ step.walked => ~step.raised
    /\ error # "" => ~step.walked /\ cargo_calls = <<>>

(***************************************************************************)
(* Properties of the walk of a diagnostic tree, checked under SpecTree.    *)
(***************************************************************************)
\* What the walk of the last record made of the context it started from.
StepAfter ==
    [found |-> this_view_found, regions_by_view |-> regions_by_view,
     phantoms |-> phantoms, log |-> log, parent_info |-> parent_info,
     raised |-> step.raised]

\* C5: with warnings hidden, a record that is no error is passed over if
\* and only if it is top-level; a nested one with no span has its message
\* shown or logged.
C5_NestedNeverFiltered ==
    (/\ step.walked
     /\ settings.rust_syntax_hide_warnings
     /\ step.info.level # "error")
    => /\ step.skipped <=> step.ancestors = <<>>
       /\ (step.ancestors # <<>> /\ step.info.spans = <<>>)
            => \/ Len(phantoms) > Len(step.before.phantoms)
               \/ Len(log) > Len(step.before.log)

\* The view and region of the primary spans of a record that lie in an
\* open file.
AnchoredPrimary(info) ==
    {<<find_open_file(realpath(dirname(view_of_interest), chain[resolve_span(chain)].file_name)),
       Region(text_point(chain[resolve_span(chain)].line_start - 1,
                         chain[resolve_span(chain)].column_start - 1),
              text_point(chain[resolve_span(chain)].line_end - 1,
                         chain[resolve_span(chain)].column_end - 1))>> :
        chain \in {info.spans[i] : i \in
                    {j \in 1..Len(info.spans) :
                        /\ info.spans[j][1].is_primary
                        /\ resolve_span(info.spans[j]) # 0
                        /\ find_open_file(realpath(dirname(view_of_interest),
                              info.spans[j][resolve_span(info.spans[j])].file_name))
                           # NoView}}}

\* The view and highlight region of the phantom added last.
LastAnchor ==
    LET ph == phantoms[Len(phantoms)]
        key == <<ph.view, IF ph.content.cls = "rust-error" THEN "invalid" ELSE "info">>
    IN  <<ph.view, regions_by_view[key][Len(regions_by_view[key])]>>

\* C6: the message of a child with no span, walked under a parent that has
\* an anchored primary span, is anchored at the region of a primary span of
\* that parent.
C6_ChildAtParentRegion ==
    (/\ step.walked
     /\ step.ancestors # <<>>
     /\ step.info.spans = <<>>
     /\ AnchoredPrimary(step.ancestors[Len(step.ancestors)].info) # {})
    => /\ Len(phantoms) = Len(step.before.phantoms) + 1
       /\ Len(log) = Len(step.before.log)
       /\ LastAnchor \in AnchoredPrimary(step.ancestors[Len(step.ancestors)].info)

\* The first span of a chain that is no macro span, 0 when it has none.
FirstReal(chain) ==
    IF \A j \in 1..Len(chain) : contains_macros(chain[j].file_name) THEN 0
    ELSE CHOOSE j \in 1..Len(chain) :
            /\ ~contains_macros(chain[j].file_name)
            /\ \A i \in 1..(j - 1) : contains_macros(chain[i].file_name)

\* The record with each span replaced by the span it stands for (is_primary
\* stays that of the span itself), the spans that stand for none left out.
RECURSIVE StandFor(_)
StandFor(spans) ==
    IF spans = <<>> THEN <<>>
    ELSE LET chain == Head(spans) IN
         (IF FirstReal(chain) = 0 THEN <<>>
          ELSE <<<<[chain[FirstReal(chain)] EXCEPT !.is_primary = chain[1].is_primary]>>>>)
         \o StandFor(Tail(spans))

\* C9: a span of a file resolves to itself; a macro span resolves, after as
\* many hops as macro spans precede it, to the first span of its chain of
\* expansions that is a span of a file, or to none when the chain has no
\* such span; the record is walked as if each span were the one it resolves
\* to, and as if the spans that resolve to none were not there.
C9_SpanResolution ==
    (step.walked /\ ~step.skipped)
    => /\ \A i \in 1..Len(step.info.spans) :
            /\ step.resolved[i] = FirstReal(step.info.spans[i])
            /\ ~contains_macros(step.info.spans[i][1].file_name)
                => step.resolved[i] = 1
       /\ step.info.spans # <<>>
            => StepAfter =
                 walk_spans(step.before,
                            [step.info EXCEPT !.spans = StandFor(step.info.spans)],
                            view_of_interest, dirname(view_of_interest), 1)

\* C9's case: the first span ends, after a hop, in a macro span with no
\* expansion, and the span after it is anchored.
C9_Witness ==
    /\ step.walked /\ ~step.skipped
    /\ Len(step.info.spans) = 2
    /\ Len(step.info.spans[1]) = 2
    /\ step.resolved[1] = 0
    /\ step.resolved[2] = 1
    /\ Len(phantoms) > Len(step.before.phantoms)

IsNoise(message) ==
    startswith(message, AbortingDueTo) \/ startswith(message, CannotContinue)

\* The walk of the last record showed nothing, logged nothing and left the
\* flag of the run as it was.
StepSilent ==
    /\ phantoms = step.before.phantoms
    /\ regions_by_view = step.before.regions_by_view
    /\ log = step.before.log
    /\ this_view_found = step.before.found

\* C10 as stated: a record with no span whose message starts with "aborting
\* due to" or "cannot continue" yields no phantom, no highlight region and
\* no logged line and does not set the flag, wherever it is in its tree.
C10_NoiseSilentEverywhere ==
    (step.walked /\ step.info.spans = <<>> /\ IsNoise(step.info.message))
    => StepSilent

\* C10, amended: such a record is silent when it is walked with an empty
\* parent_info (top-level, or in a tree none of whose records walked so far
\* was given an anchored region); walked after a record of its tree was
\* anchored, its message is added at that region as that of any child with
\* no span.
C10_NoiseSilentUnanchored ==
    (step.walked /\ step.info.spans = <<>> /\ IsNoise(step.info.message))
    => IF step.before.parent_info.empty THEN StepSilent
       ELSE /\ Len(phantoms) = Len(step.before.phantoms) + 1
            /\ LastAnchor = <<step.before.parent_info.view,
                              step.before.parent_info.region>>
            /\ phantoms[Len(phantoms)].content.msg = html_escape(step.info.message)
            /\ log = step.before.log

\* C10's case: a top-level "aborting due to" record of a target whose
\* source file is open, with warnings shown.
C10_Witness ==
    /\ step.walked /\ step.info.spans = <<>> /\ IsNoise(step.info.message)
    /\ step.ancestors = <<>>
    /\ ~step.skipped
    /\ find_open_file(realpath(dirname(view_of_interest), step.target_src_path)) # NoView

\* The ancestors of the saved file that hold the entry point of a declared
\* target, and the deepest of them.
DeclaredDirs ==
    {a \in Ancestors : \E d \in Declared : dirname(DeclaredSrc(d)) = a}
DeepestDeclaredDir ==
    CHOOSE a \in DeclaredDirs : \A b \in DeclaredDirs : Len(b) <= Len(a)

\* The declared targets of an invoked kind at the deepest such level, and
\* those of them that the filter of libraries over binaries keeps.
DeepestTargets ==
    {d \in Declared :
        /\ dirname(DeclaredSrc(d)) = DeepestDeclaredDir
        /\ DeclaredKind(d) \in InvokedKinds}
DeepestKept ==
    IF (\E d \in DeepestTargets : DeclaredKind(d) \in LibKinds)
       /\ (\E d \in DeepestTargets : DeclaredKind(d) = "bin")
        THEN {d \in DeepestTargets : DeclaredKind(d) # "bin"}
    ELSE DeepestTargets

\* C11: a nearest-directory result holds the invocations of the deepest
\* ancestor directory of the saved file that holds a declared entry point:
\* every invocation of the result has its entry point in that directory
\* and none in a shallower one, every target of an invoked kind of that
\* level is in it unless the filter of libraries over binaries dropped it,
\* and when no ancestor holds a declared entry point the walk ends at the
\* root with an empty result.
C11_DeepestLevelOnly ==
    /\ (rres.done /\ ~rres.raised /\ rres.via = "longest")
        => /\ DeclaredDirs # {}
           /\ \A j \in 1..Len(rres.result) :
                dirname(rres.result[j][1].parts) = DeepestDeclaredDir
           /\ \A d \in DeepestKept :
                \E j \in 1..Len(rres.result) : rres.result[j] = Invocation(d)
    /\ (rres.done /\ NoManualOverride /\ DeclaredDirs = {})
        => ~rres.raised /\ rres.result = <<>>

(***************************************************************************)
(* Malformed spans, checked under SpecTree.                                *)
(***************************************************************************)
\* The span a chain resolves to has no label and no suggested replacement,
\* and the span itself is not primary.
Malformed(chain) ==
    /\ resolve_span(chain) # 0
    /\ chain[resolve_span(chain)].label = <<>>
    /\ ~chain[1].is_primary
    /\ chain[resolve_span(chain)].suggested_replacement = <<>>

\* C12: the walk of a record raises the error exactly when one of its spans
\* has no label, is not primary and has no suggested replacement, whether
\* the file of the span is open or not.
C12_RaisedIffMalformed ==
    (step.walked /\ ~step.skipped)
    => (step.raised <=>
            \E i \in 1..Len(step.info.spans) : Malformed(step.info.spans[i]))

(***************************************************************************)
(* Properties of overlapping check runs, checked under SpecOverlap.        *)
(***************************************************************************)
\* Call r anchored an annotation in the file whose save started it.
AnchoredOwn(r) ==
    \E scope \in Scopes :
        runs[r].regions_by_view[<<runs[r].view_of_interest, scope>>] # <<>>

\* C13: of two overlapping check runs, a run ends with targets left to
\* fetch only if it anchored an annotation in its own file itself, and a
\* run that anchored one there is not sent to fetch a further target.
C13_RunOwnsItsFlag ==
    \A r \in RunIds :
        /\ (/\ runs[r].started
            /\ runs[r].pc = "idle"
            /\ ~runs[r].raised
            /\ runs[r].ti < Len(runs[r].target_list))
           => AnchoredOwn(r)
        /\ runs[r].pc = "fetch" => ~AnchoredOwn(r)

====
